---- MODULE Spec2Model ----
(***************************************************************************)
(* Gantt App (src/gantt_app/app.py): the staff x date assignment viewer.   *)
(*                                                                         *)
(* Dates are proleptic Gregorian ordinals (date.toordinal()), so timedelta *)
(* arithmetic is integer arithmetic and date.weekday() is (ordinal+6) % 7  *)
(* (ordinal 1 = 0001-01-01 was a Monday; 738886 = 2024-01-01, a Monday).   *)
(*                                                                         *)
(* The store is the two tables Staff and Assign.  Every route handler is   *)
(* one action; what the handler computed for its response is kept in ctx.  *)
(*                                                                         *)
(* Villa Staff Memo (src/app.py, src/old-app.py): the access gate of the   *)
(* before_request function and the villa list of _load_villas, each with   *)
(* a specification of its own over the same variables.                     *)
(***************************************************************************)
EXTENDS Integers, Sequences, FiniteSets, TLC

VARIABLES staff, assigns, req, ctx, users, jar, config

vars == <<staff, assigns, req, ctx, users, jar, config>>

----------------------------------------------------------------------------
(* Bounds of the model *)

\* first sample date (2023-12-31, a Sunday)
MinDate == 738885
\* distance in days between two sample dates
DateStep == 5
\* rows the Assign table may hold
MaxAssign == 2
\* largest week count requested explicitly
MaxWeeks == 2
\* number of rows of SEED_STAFF that are modelled (all of them)
SeedCount == 9
\* consecutive dates tried as the start date of build_timeline
TimelineDays == 14

----------------------------------------------------------------------------
(* Request values *)

\* a query or form parameter: absent, the empty string, a '%Y-%m-%d' string, a
\* decimal integer string, or a string that is none of these
Absent == [k |-> "absent", v |-> 0]
Empty == [k |-> "empty", v |-> 0]
Garbage == [k |-> "garbage", v |-> 0]
DateStr(d) == [k |-> "ymd", v |-> d]
IntStr(n) == [k |-> "int", v |-> n]

\* Python values: None, and the result of a call that may raise
None == <<>>
Some(x) == <<x>>
Ok(x) == [ok |-> TRUE, val |-> x, err |-> ""]
Raise(e) == [ok |-> FALSE, val |-> 0, err |-> e]

SampleDates == {MinDate, MinDate + DateStep, MinDate + 2 * DateStep}
StartParams == {DateStr(d) : d \in SampleDates} \cup {Absent, Empty, Garbage}
DateParams == {DateStr(d) : d \in SampleDates} \cup {Garbage}
WeekParams == {IntStr(w) : w \in (-1)..MaxWeeks} \cup {Absent, Garbage}
Titles == {"Task"}
Memos == {"memo"}

\* the truth value of a parameter: None and '' are false
truthy(s) == s.k \notin {"absent", "empty"}

\* the memo application's process state: app.config['_DB_INIT_DONE'] and the
\* ACCESS_CODE variable of os.environ (None: unset)
NoConfig == [db_init_done |-> FALSE, access_code |-> None]

\* the browser's cookies: the access cookie 'ac', the language cookie 'lang',
\* and the id of the logged-in user kept in the session cookie (None: not sent)
NoJar == [ac |-> None, lang |-> None, uid |-> None]

Max(a, b) == IF a >= b THEN a ELSE b
Min(a, b) == IF a <= b THEN a ELSE b

----------------------------------------------------------------------------
(* Bootstrapping *)

\* a name is the sequence of its characters, so that ORDER BY name can compare
SEED_STAFF == <<
    << <<"W","X","P">>,     "#8ecae6" >>,
    << <<"L","J","H">>,     "#90be6d" >>,
    << <<"T","L","F">>,     "#f9c74f" >>,
    << <<"L","X","Y">>,     "#f8961e" >>,
    << <<"M","A","M","A">>, "#f28482" >>,
    << <<"B","A","B","A">>, "#b388eb" >>,
    << <<"R","C","D">>,     "#f72585" >>,
    << <<"S","C","L">>,     "#4cc9f0" >>,
    << <<"J","S","P">>,     "#43aa8b" >> >>

\* the seed rows that are modelled
Seeds == SubSeq(SEED_STAFF, 1, Min(SeedCount, Len(SEED_STAFF)))

\* mutant: the rows are added whatever the table holds
ensure_db_seed_always(st) ==
    st \o [i \in 1..Len(Seeds) |->
             [id |-> Len(st) + i, name |-> Seeds[i][1], color |-> Seeds[i][2]]]

\* ensure_db_seed: the Staff table after the call
ensure_db_seed(st) ==
    IF Len(st) = 0
    THEN [i \in 1..Len(Seeds) |-> [id |-> i, name |-> Seeds[i][1], color |-> Seeds[i][2]]]
    ELSE st

----------------------------------------------------------------------------
(* Date helpers *)

\* whether y is a leap year of the proleptic Gregorian calendar
is_leap(y) == y % 4 = 0 /\ (y % 100 # 0 \/ y % 400 = 0)

\* the days of year y that lie before its month m
days_before_month(y, m) ==
    LET cum == <<0, 31, 59, 90, 120, 151, 181, 212, 243, 273, 304, 334>>
    IN  cum[m] + (IF m > 2 /\ is_leap(y) THEN 1 ELSE 0)

\* the date that strptime makes of 'y-m-d', as the day number of
\* date.toordinal() (0001-01-01 is day 1)
toordinal(y, m, d) ==
    LET p == y - 1
    IN  p * 365 + (p \div 4) - (p \div 100) + (p \div 400) + days_before_month(y, m) + d

\* date.weekday(): Monday is 0, Sunday is 6
weekday(d) == (d + 6) % 7

\* mutant: a string that is no date is read as the first sample date
parse_date_lenient(s) == IF s.k = "ymd" THEN Ok(s.v) ELSE Ok(MinDate)

\* datetime.strptime(s, '%Y-%m-%d').date(): raises ValueError on any other string
parse_date(s) == IF s.k = "ymd" THEN Ok(s.v) ELSE Raise("ValueError")

\* int(s): raises ValueError unless s is a decimal integer
parse_int(s) == IF s.k = "int" THEN Ok(s.v) ELSE Raise("ValueError")

\* mutant: isoweekday() (Monday is 1) taken for weekday()
monday_of_iso(d) == d - (weekday(d) + 1)

monday_of(d) == d - weekday(d)

\* weeks * 7
total_days_of(weeks) == weeks * 7

\* mutant: the offsets run from 1 to total_days
days_from_one(start, total_days) ==
    [i \in 1..Max(total_days, 0) |-> start + i]

\* [start + timedelta(days=i) for i in range(total_days)]
days_from(start, total_days) ==
    [i \in 1..Max(total_days, 0) |-> start + (i - 1)]

\* build_timeline(start, weeks); start is None or Some(date); days[-1] raises
\* IndexError on an empty list
build_timeline(start, weeks, today) ==
    LET s == monday_of(IF start = None THEN today ELSE start[1])
        days == days_from(s, total_days_of(weeks))
    IN  IF Len(days) = 0
        THEN Raise("IndexError")
        ELSE Ok([start |-> s, end |-> days[Len(days)], days |-> days])

overlap(a1, a2, b1, b2) == ~(a2 < b1 \/ b2 < a1)

----------------------------------------------------------------------------
(* Queries *)

Alphabet == <<"A","B","C","D","E","F","G","H","I","J","K","L","M",
              "N","O","P","Q","R","S","T","U","V","W","X","Y","Z">>

\* the position of every letter, looked up by Ord
OrdTable ==
    [c \in {Alphabet[i] : i \in DOMAIN Alphabet} |->
        CHOOSE i \in DOMAIN Alphabet : Alphabet[i] = c]

Ord(c) == OrdTable[c]

\* string comparison of two names, character by character
RECURSIVE name_less(_, _)
name_less(a, b) ==
    IF Len(b) = 0 THEN FALSE
    ELSE IF Len(a) = 0 THEN TRUE
    ELSE IF a[1] = b[1] THEN name_less(Tail(a), Tail(b))
    ELSE Ord(a[1]) < Ord(b[1])

\* Staff.query.order_by(Staff.name.asc()).all()
staff_query(st) == SortSeq(st, LAMBDA x, y : name_less(x.name, y.name))

\* mutant: the window's last day is left out
assign_filter_strict(r, tl) == r.end_date >= tl.start /\ r.start_date < tl.end

\* filter(Assign.end_date >= tl.start, Assign.start_date <= tl.end)
assign_filter(r, tl) == r.end_date >= tl.start /\ r.start_date <= tl.end

\* mutant: ties on start_date come newest first
assign_order_id_desc(x, y) ==
    x.start_date < y.start_date \/ (x.start_date = y.start_date /\ x.id > y.id)

\* order_by(Assign.start_date.asc(), Assign.id.asc())
assign_order(x, y) ==
    x.start_date < y.start_date \/ (x.start_date = y.start_date /\ x.id < y.id)

\* q.all()
assign_query(rows, tl) ==
    SortSeq(SelectSeq(rows, LAMBDA r : assign_filter(r, tl)), assign_order)

----------------------------------------------------------------------------
(* GET /gantt *)

DefaultWeeks == 4

\* mutant: the window's last day is left out of the clamp
clamp_view_open(it, tl) ==
    [title      |-> it.title,
     start_date |-> Max(it.start_date, tl.start),
     end_date   |-> Min(it.end_date, tl.end - 1),
     memo       |-> it.memo]

\* mutant: the dict carries the row's own dates
clamp_view_raw(it, tl) ==
    [title      |-> it.title,
     start_date |-> it.start_date,
     end_date   |-> it.end_date,
     memo       |-> it.memo]

\* the dict appended to a bucket for one row
clamp_view(it, tl) ==
    [title      |-> it.title,
     start_date |-> Max(it.start_date, tl.start),
     end_date   |-> Min(it.end_date, tl.end),
     memo       |-> it.memo]

\* mutant: the loop clamps the loaded row itself (it.start_date = max(...))
row_after_loop_clamped(it, tl) ==
    [it EXCEPT !.start_date = Max(it.start_date, tl.start),
               !.end_date   = Min(it.end_date, tl.end)]

\* the loaded row object after its pass through the loop: the loop only reads it
row_after_loop(it, tl) == it

\* mutant: the last staff member gets no bucket
empty_buckets_short(staff_list) ==
    [sid \in {staff_list[i].id : i \in 1..(Len(staff_list) - 1)} |-> <<>>]

\* grouped = {s.id: [] for s in staff_list}
empty_buckets(staff_list) ==
    [sid \in {staff_list[i].id : i \in DOMAIN staff_list} |-> <<>>]

\* whether the loop puts the row into a bucket
in_roster(it, grouped) == it.staff_id \in DOMAIN grouped

\* mutant: the dict is put at the front of the bucket
bucket_put_front(bucket, view) == <<view>> \o bucket

\* grouped[it.staff_id].append({...})
bucket_put(bucket, view) == Append(bucket, view)

\* for it in items: if it.staff_id in grouped: grouped[it.staff_id].append({...})
RECURSIVE bucket_loop(_, _, _)
bucket_loop(items, grouped, tl) ==
    IF Len(items) = 0 THEN grouped
    ELSE LET it == Head(items)
         IN  bucket_loop(Tail(items),
                         IF in_roster(it, grouped)
                         THEN [grouped EXCEPT ![it.staff_id] = bucket_put(@, clamp_view(it, tl))]
                         ELSE grouped,
                         tl)

\* mutant: the room left of the bar's column is counted without the column
bar_of_tight(it, tl) ==
    LET n       == Len(tl.days)
        start0  == (it.start_date - tl.start) + 1
        start1  == IF start0 < 1 THEN 1 ELSE start0
        start2  == IF start1 > n THEN n ELSE start1
        maxspan == n - start2
        span0   == (it.end_date - it.start_date) + 1
        span1   == IF span0 > maxspan THEN maxspan ELSE span0
    IN  [start |-> start2, span |-> span1]

\* mutant: a zero-based column
bar_start_raw_zero(it, tl) == it.start_date - tl.start

\* GANTT template: {% set start = (it.start_date - tl.start).days + 1 %}
bar_start_raw(it, tl) == (it.start_date - tl.start) + 1

\* GANTT template: {% set span = (it.end_date - it.start_date).days + 1 %}
bar_span_raw(it) == (it.end_date - it.start_date) + 1

\* GANTT template: the grid-column start and span of one bar, after the
\* template's own limits
bar_of(it, tl) ==
    LET n       == Len(tl.days)
        start0  == bar_start_raw(it, tl)
        start1  == IF start0 < 1 THEN 1 ELSE start0
        start2  == IF start1 > n THEN n ELSE start1
        maxspan == n - start2 + 1
        span0   == bar_span_raw(it)
        span1   == IF span0 > maxspan THEN maxspan ELSE span0
    IN  [start |-> start2, span |-> span1]

\* GANTT template: one lane per staff member of staff_list, one bar per dict of
\* grouped.get(s.id, [])
lanes_of(staff_list, grouped, tl) ==
    [i \in 1..Len(staff_list) |->
        LET sid == staff_list[i].id
            g   == IF sid \in DOMAIN grouped THEN grouped[sid] ELSE <<>>
        IN  [staff_id |-> sid,
             bars     |-> [j \in 1..Len(g) |-> bar_of(g[j], tl)]]]

NoTimeline == [start |-> 0, end |-> 0, days |-> <<>>]

\* what a handler leaves behind: the response and the locals it was made from
Ctx(kind, status, err, weeks, tl, staff_list, items, grouped, lanes) ==
    [kind |-> kind, status |-> status, err |-> err, weeks |-> weeks, tl |-> tl,
     staff_list |-> staff_list, items |-> items, grouped |-> grouped, lanes |-> lanes]

\* an unhandled exception: Flask answers 500
Failed(err, weeks) == Ctx("error", 500, err, weeks, NoTimeline, <<>>, <<>>, <<>>, <<>>)

Plain(kind, status, staff_list) ==
    Ctx(kind, status, "", 0, NoTimeline, staff_list, <<>>, <<>>, <<>>)

\* the gantt view function, after ensure_db_seed
gantt(st, rows, qs_start, qs_weeks, today) ==
    LET weeks == parse_int(IF qs_weeks = Absent THEN IntStr(DefaultWeeks) ELSE qs_weeks)
        start == IF truthy(qs_start) THEN parse_date(qs_start) ELSE Ok(monday_of(today))
        tlr   == build_timeline(Some(start.val), weeks.val, today)
        tl    == tlr.val
        staff_list == staff_query(st)
        grouped0   == empty_buckets(staff_list)
        items      == assign_query(rows, tl)
        grouped    == bucket_loop(items, grouped0, tl)
    IN  IF ~weeks.ok THEN Failed(weeks.err, 0)
        ELSE IF ~start.ok THEN Failed(start.err, weeks.val)
        ELSE IF ~tlr.ok THEN Failed(tlr.err, weeks.val)
        ELSE Ctx("gantt", 200, "", weeks.val, tl, staff_list, items, grouped,
                 lanes_of(staff_list, grouped, tl))

\* the Assign table after the gantt view function: the rows it loaded are the
\* session's objects
rows_after_gantt(rows, c) ==
    IF c.kind # "gantt" THEN rows
    ELSE [i \in DOMAIN rows |->
            IF assign_filter(rows[i], c.tl) /\ in_roster(rows[i], c.grouped)
            THEN row_after_loop(rows[i], c.tl)
            ELSE rows[i]]

----------------------------------------------------------------------------
(* /assign/new *)

\* mutant: no swap
normalize_range_none(start, end) == <<start, end>>

\* mutant: a swap without a temporary (start = end; end = start)
normalize_range_lossy(start, end) == IF end < start THEN <<end, end>> ELSE <<start, end>>

\* if end < start: start, end = end, start
normalize_range(start, end) == IF end < start THEN <<end, start>> ELSE <<start, end>>

\* mutant: the new row takes the place of the last stored row
insert_assign_replace(rows, title, staff_id, start, end, memo) ==
    IF Len(rows) = 0
    THEN <<[id |-> 1, title |-> title, staff_id |-> staff_id,
            start_date |-> start, end_date |-> end, memo |-> memo]>>
    ELSE [rows EXCEPT ![Len(rows)] =
            [id |-> Len(rows), title |-> title, staff_id |-> staff_id,
             start_date |-> start, end_date |-> end, memo |-> memo]]

\* db.session.add(Assign(...)); db.session.commit(): the id is the next integer.
\* SQLite (the configured default) is opened without PRAGMA foreign_keys, so
\* the staff_id is stored as given.
insert_assign(rows, title, staff_id, start, end, memo) ==
    Append(rows, [id |-> Len(rows) + 1, title |-> title, staff_id |-> staff_id,
                  start_date |-> start, end_date |-> end, memo |-> memo])

----------------------------------------------------------------------------
(* The requests *)

\* the request being handled: its route and method, its start parameter (of
\* the form or of the query string), the end field of the form, and the weeks
\* parameter of the query string
Req(route, method, start, end, weeks) ==
    [route |-> route, method |-> method, start |-> start, end |-> end,
     weeks |-> weeks]

NoReq == Req("", "", Absent, Absent, Absent)

NoCtx == Plain("none", 0, <<>>)

\* staff_id values a form may carry: two seeded ids and one that no row has
StaffIdInputs == {1, 2, Len(Seeds) + 1}

Init ==
    /\ users = <<>>
    /\ jar = NoJar
    /\ config = NoConfig
    /\ staff = <<>>
    /\ assigns = <<>>
    /\ req = NoReq
    /\ ctx = NoCtx

\* no request is being handled
Idle == req = NoReq

\* GET /gantt?start=..&weeks=.. with the parameters and date.today() drawn
\* from the given sets; date.today() is read only when no start is given
GanttOn(starts, weekparams, todays) ==
    /\ Idle
    /\ \E qs_start \in starts, qs_weeks \in weekparams :
        \E today \in (IF truthy(qs_start) THEN {MinDate} ELSE todays) :
          LET st == ensure_db_seed(staff)
              c  == gantt(st, assigns, qs_start, qs_weeks, today)
          IN  /\ staff' = st
              /\ UNCHANGED <<users, jar, config>>
              /\ ctx' = c
              /\ assigns' = rows_after_gantt(assigns, c)
              /\ req' = Req("gantt", "GET", qs_start, Absent, qs_weeks)

\* GET /gantt?start=..&weeks=..
Gantt == GanttOn(StartParams, WeekParams, {MinDate})

\* POST /assign/new with the date fields drawn from the given set
NewAssignPostOn(dateparams) ==
    /\ Idle
    /\ \E title \in Titles, staff_id \in StaffIdInputs, memo \in Memos,
          f_start \in dateparams, f_end \in dateparams :
          LET st    == ensure_db_seed(staff)
              start == parse_date(f_start)
              end   == parse_date(f_end)
              se    == normalize_range(start.val, end.val)
          IN  /\ staff' = st
              /\ UNCHANGED <<users, jar, config>>
              /\ req' = Req("new_assign", "POST", f_start, f_end, Absent)
              /\ IF ~start.ok THEN
                      /\ ctx' = Failed(start.err, 0)
                      /\ assigns' = assigns
                 ELSE IF ~end.ok THEN
                      /\ ctx' = Failed(end.err, 0)
                      /\ assigns' = assigns
                 ELSE /\ Len(assigns) < MaxAssign
                      /\ assigns' = insert_assign(assigns, title, staff_id, se[1], se[2], memo)
                      /\ ctx' = Plain("redirect", 302, staff_query(st))

\* POST /assign/new
NewAssignPost == NewAssignPostOn(DateParams)

\* GET /assign/new
NewAssignGet ==
    /\ Idle
    /\ LET st == ensure_db_seed(staff)
       IN  /\ staff' = st
           /\ UNCHANGED <<users, jar, config>>
           /\ ctx' = Plain("form", 200, staff_query(st))
    /\ req' = Req("new_assign", "GET", Absent, Absent, Absent)
    /\ UNCHANGED <<assigns, users, jar, config>>

\* GET /
Index ==
    /\ Idle
    /\ ctx' = Plain("redirect", 302, <<>>)
    /\ req' = Req("index", "GET", Absent, Absent, Absent)
    /\ UNCHANGED <<staff, assigns, users, jar, config>>

\* GET /health
Health ==
    /\ Idle
    /\ ctx' = Plain("ok", 200, <<>>)
    /\ req' = Req("health", "GET", Absent, Absent, Absent)
    /\ UNCHANGED <<staff, assigns, users, jar, config>>

\* ensure_db_seed() called outside a request, as run_self_tests does
EnsureDbSeed ==
    /\ Idle
    /\ staff' = ensure_db_seed(staff)
    /\ UNCHANGED <<assigns, req, ctx, users, jar, config>>

\* the response is sent and the request's locals are gone; the tables stay
Teardown ==
    /\ ~Idle
    /\ req' = NoReq
    /\ ctx' = NoCtx
    /\ UNCHANGED <<staff, assigns, users, jar, config>>

Next ==
    Gantt \/ NewAssignPost \/ NewAssignGet \/ Index \/ Health \/ EnsureDbSeed \/ Teardown

Spec == Init /\ [][Next]_vars

----------------------------------------------------------------------------
(* The requests, on the dates of January 2024 *)

JanuaryDates == {toordinal(2024, 1, 10), toordinal(2024, 1, 20)}

\* GET /gantt on 2024-01-17, for a window asked from 2024-01-01 or 2024-01-10
\* or not asked
JanuaryGantt ==
    GanttOn({DateStr(toordinal(2024, 1, 1)), DateStr(toordinal(2024, 1, 10)), Absent},
            {IntStr(1), IntStr(2), Absent},
            {toordinal(2024, 1, 17)})

\* POST /assign/new with dates of January 2024
JanuaryNewAssignPost == NewAssignPostOn({DateStr(d) : d \in JanuaryDates} \cup {Garbage})

JanuaryNext == JanuaryGantt \/ JanuaryNewAssignPost \/ Teardown

SpecJanuary == Init /\ [][JanuaryNext]_vars

----------------------------------------------------------------------------
(* The requests, on the first and the last day of a two-week window *)

\* GET /gantt on 2024-01-03, for a window asked from 2024-01-01 or not asked
EdgeGantt ==
    GanttOn({DateStr(toordinal(2024, 1, 1)), Absent}, {IntStr(1), IntStr(2)},
            {toordinal(2024, 1, 3)})

\* POST /assign/new with the dates 2024-01-01 and 2024-01-14
EdgeNewAssignPost ==
    NewAssignPostOn({DateStr(toordinal(2024, 1, 1)), DateStr(toordinal(2024, 1, 14))})

EdgeNext == EdgeGantt \/ EdgeNewAssignPost \/ Teardown

SpecEdges == Init /\ [][EdgeNext]_vars

----------------------------------------------------------------------------
(* build_timeline applied to every start date of a range and every week count *)

TimelineDates == MinDate..(MinDate + TimelineDays - 1)

\* the call's arguments are kept in req
TimelineInit ==
    /\ users = <<>>
    /\ jar = NoJar
    /\ config = NoConfig
    /\ staff = <<>>
    /\ assigns = <<>>
    /\ ctx = NoCtx
    /\ \E d \in TimelineDates, w \in 0..MaxWeeks, today \in {MinDate, MinDate + DateStep} :
          \/ req = [route |-> "build_timeline", start |-> Some(d), weeks |-> w, today |-> today]
          \/ req = [route |-> "build_timeline", start |-> None, weeks |-> w, today |-> d]

BuildTimeline ==
    /\ ctx = NoCtx
    /\ LET r == build_timeline(req.start, req.weeks, req.today)
       IN  ctx' = IF r.ok
                  THEN Ctx("timeline", 0, "", req.weeks, r.val, <<>>, <<>>, <<>>, <<>>)
                  ELSE Failed(r.err, req.weeks)
    /\ UNCHANGED <<staff, assigns, req, users, jar, config>>

TimelineNext == BuildTimeline

SpecTimeline == TimelineInit /\ [][TimelineNext]_vars

----------------------------------------------------------------------------
(* The access gate of the memo application (before_request) *)

\* the truth value of a string that may be None: None and '' are false
str_truthy(x) == x # None /\ x[1] # ""

\* endpoints that the gate lets through
allowed_eps == {"health", "access", "static", "login", "selftest"}

\* (request.endpoint or '').split('.')[-1], the endpoint being the sequence
\* of its dotted components or None
endpoint_tail(endpoint) ==
    LET parts == IF endpoint = None THEN <<"">> ELSE endpoint[1]
    IN  parts[Len(parts)]

\* mutant: any 'ac' cookie counts
access_gate_any_cookie(access_code, endpoint, cookie_ac, arg_access) ==
    IF str_truthy(access_code)
    THEN LET ep         == endpoint_tail(endpoint)
             has_cookie == cookie_ac # None
             from_query == arg_access
         IN  IF str_truthy(from_query) /\ from_query = access_code
             THEN [redirect |-> FALSE, set_access_cookie |-> TRUE]
             ELSE IF ~has_cookie /\ ep \notin allowed_eps
             THEN [redirect |-> TRUE, set_access_cookie |-> FALSE]
             ELSE [redirect |-> FALSE, set_access_cookie |-> FALSE]
    ELSE [redirect |-> FALSE, set_access_cookie |-> FALSE]

\* the gate of the before_request function: whether it returns the redirect
\* to /access, and whether it asks for the 'ac' cookie to be set
access_gate(access_code, endpoint, cookie_ac, arg_access) ==
    IF str_truthy(access_code)
    THEN LET ep         == endpoint_tail(endpoint)
             has_cookie == cookie_ac = access_code
             from_query == arg_access
         IN  IF str_truthy(from_query) /\ from_query = access_code
             THEN [redirect |-> FALSE, set_access_cookie |-> TRUE]
             ELSE IF ~has_cookie /\ ep \notin allowed_eps
             THEN [redirect |-> TRUE, set_access_cookie |-> FALSE]
             ELSE [redirect |-> FALSE, set_access_cookie |-> FALSE]
    ELSE [redirect |-> FALSE, set_access_cookie |-> FALSE]

\* values of the ACCESS_CODE environment variable: unset, empty, a code
AccessCodes == {None, Some(""), Some("s3cret")}

\* values of the 'ac' cookie and of the 'access' query parameter
CodeInputs == {None, Some(""), Some("s3cret"), Some("guess")}

\* request.endpoint: view functions of the application, Flask's static
\* endpoint, and None when no route matches
Endpoints ==
    {Some(<<e>>) : e \in {"health", "access", "static", "login", "selftest", "index",
                          "dashboard", "list_tasks", "uploaded_file", "admin_users"}}
    \cup {None}

GateInit ==
    /\ users = <<>>
    /\ jar = NoJar
    /\ config = NoConfig
    /\ staff = <<>>
    /\ assigns = <<>>
    /\ req = [route |-> ""]
    /\ ctx = [kind |-> "none"]

\* one request passes before_request and, unless that returns a response, its
\* view function; os.environ is read on every request
GateRequest ==
    /\ req.route = ""
    /\ \E access_code \in AccessCodes, endpoint \in Endpoints,
          cookie_ac \in CodeInputs, arg_access \in CodeInputs :
          LET r == access_gate(access_code, endpoint, cookie_ac, arg_access)
          IN  /\ req' = [route |-> "gated", access_code |-> access_code,
                         endpoint |-> endpoint, cookie_ac |-> cookie_ac,
                         arg_access |-> arg_access]
              /\ ctx' = IF r.redirect
                        THEN [kind |-> "redirect", status |-> 302, location |-> "/access",
                              handler_ran |-> FALSE, set_access_cookie |-> FALSE]
                        ELSE [kind |-> "dispatched", status |-> 0, location |-> "",
                              handler_ran |-> TRUE,
                              set_access_cookie |-> r.set_access_cookie]
    /\ UNCHANGED <<staff, assigns, users, jar, config>>

\* the response is sent
GateTeardown ==
    /\ req.route = "gated"
    /\ req' = [route |-> ""]
    /\ ctx' = [kind |-> "none"]
    /\ UNCHANGED <<staff, assigns, users, jar, config>>

GateNext == GateRequest \/ GateTeardown

SpecGate == GateInit /\ [][GateNext]_vars

----------------------------------------------------------------------------
(* The villa list of the memo application (_load_villas) *)

\* number of villa shortcuts
VillaCount == 24

\* most names a VILLA_NAMES value carries
MaxVillaNames == 26

\* a string is the sequence of its characters
Whitespace == {" ", "\n"}

Digit(n) == <<"0", "1", "2", "3", "4", "5", "6", "7", "8", "9">>[n + 1]

\* str.strip(): what lies between the first and the last character that is
\* no whitespace
strip(s) ==
    LET keep == {i \in DOMAIN s : s[i] \notin Whitespace}
    IN  IF keep = {} THEN <<>>
        ELSE SubSeq(s, CHOOSE i \in keep : \A j \in keep : i <= j,
                       CHOOSE i \in keep : \A j \in keep : i >= j)

\* str.split(sep) for a one-character sep: the pieces between the separators,
\* empty pieces included
split(s, sep) ==
    LET at     == {i \in DOMAIN s : s[i] = sep}
        nth(j) == IF j = 0 THEN 0
                  ELSE IF j > Cardinality(at) THEN Len(s) + 1
                  ELSE CHOOSE i \in at : Cardinality({x \in at : x < i}) = j - 1
    IN  [j \in 1..(Cardinality(at) + 1) |-> SubSeq(s, nth(j - 1) + 1, nth(j) - 1)]

\* str.splitlines(): no line for the empty string, none after a final newline
splitlines(s) ==
    LET lines == split(s, "\n")
    IN  IF s = <<>> THEN <<>>
        ELSE IF lines[Len(lines)] = <<>> THEN SubSeq(lines, 1, Len(lines) - 1)
        ELSE lines

\* for p in line.split(','): p = p.strip(); if p: parts.append(p)
parts_of_line(line) ==
    LET ps == split(line, ",")
    IN  SelectSeq([i \in 1..Len(ps) |-> strip(ps[i])], LAMBDA p : p # <<>>)

\* for line in raw.splitlines(): ... (the parts of all lines, in order)
RECURSIVE parts_of_lines(_)
parts_of_lines(lines) ==
    IF lines = <<>> THEN <<>>
    ELSE parts_of_line(Head(lines)) \o parts_of_lines(Tail(lines))

\* format(i, '02d') for 0 <= i < 100
fmt_02d(i) == <<Digit(i \div 10), Digit(i % 10)>>

\* f'Villa {i:02d}'
villa_nn(i) == <<"V", "i", "l", "l", "a", " ">> \o fmt_02d(i)

\* the built-in names of src/app.py
DEFAULT_VILLAS == <<
    <<"G","r","a","n","d"," ","V","i","l","l","a">>,
    <<"V","i","l","l","a"," ","A">>,
    <<"V","i","l","l","a"," ","B">>,
    <<"V","i","l","l","a"," ","C">>,
    <<"P","a","n","o","r","a","m","a"," ","V","i","l","l","a">>,
    <<"S","a","n","k","a","n","d","o"," ","O","f","f","i","c","e">>,
    <<"G","l","a","m","p","i","n","g"," ","O","f","f","i","c","e">>,
    <<"M","O","K","A">>,
    <<"K","O","K","O">>,
    <<"M","A","R","U">>,
    <<"R","U","N","A">>,
    <<"M","E","I">>,
    <<"R","I","N">>,
    <<"L","E","O">>,
    <<"M","O","M","O">>,
    <<"N","e","w"," ","D","O","M","E">>,
    <<"C","U","B","E">>,
    <<"G","e","k","k","o","u","e","n">>,
    <<"V","i","l","l","a"," ","D">>,
    <<"V","i","l","l","a"," ","E">>,
    <<"V","i","l","l","a"," ","F">>,
    <<"V","i","l","l","a"," ","G">>,
    <<"V","i","l","l","a"," ","H">>,
    <<"V","i","l","l","a"," ","I">> >>

\* the built-in names of src/old-app.py: the same list without 'Villa H' and
\* 'Villa I'
OLD_DEFAULT_VILLAS == SubSeq(DEFAULT_VILLAS, 1, Len(DEFAULT_VILLAS) - 2)

\* mutant: the filling stops one short (range(start, 24))
fill_villas_short(names) ==
    IF Len(names) < VillaCount
    THEN names \o [j \in 1..(VillaCount - 1 - Len(names)) |-> villa_nn(Len(names) + j)]
    ELSE names

\* if len(names) < 24: names += [f'Villa {i:02d}' for i in range(len(names) + 1, 25)]
fill_villas(names) ==
    IF Len(names) < VillaCount
    THEN names \o [j \in 1..(VillaCount - Len(names)) |-> villa_nn(Len(names) + j)]
    ELSE names

\* _load_villas with the given built-in names; env is the VILLA_NAMES variable,
\* None when unset
load_villas(env, defaults) ==
    LET raw    == strip(IF env = None THEN <<>> ELSE env[1])
        names0 == IF raw # <<>> THEN parts_of_lines(splitlines(raw)) ELSE defaults
        names1 == SubSeq(names0, 1, Min(Len(names0), VillaCount))
    IN  fill_villas(names1)

\* how a VILLA_NAMES value is written
Styles == {"comma", "newline", "mixed", "padded", "blanks", "spaced"}

\* the i-th name of a value
villa_token(i, style) ==
    IF style = "spaced" THEN <<"v", " ">> \o fmt_02d(i) ELSE <<"v">> \o fmt_02d(i)

\* the i-th name of a value as it is written, with what separates it from its
\* neighbours
villa_piece(i, style) ==
    LET tok == villa_token(i, style)
    IN  CASE style = "comma"   -> (IF i > 1 THEN <<",">> ELSE <<>>) \o tok
          [] style = "newline" -> (IF i > 1 THEN <<"\n">> ELSE <<>>) \o tok
          [] style = "mixed"   -> (IF i = 1 THEN <<>> ELSE IF i % 2 = 0 THEN <<",">> ELSE <<"\n">>) \o tok
          [] style = "padded"  -> (IF i > 1 THEN <<",">> ELSE <<"\n">>) \o <<" ">> \o tok \o <<" ">>
          [] style = "blanks"  -> <<",">> \o tok \o <<",", " ", ",", "\n">>
          [] style = "spaced"  -> (IF i > 1 THEN <<",", " ">> ELSE <<>>) \o tok

RECURSIVE villa_pieces(_, _)
villa_pieces(k, style) ==
    IF k = 0 THEN <<>> ELSE villa_pieces(k - 1, style) \o villa_piece(k, style)

\* a VILLA_NAMES value of k names
villa_names_value(k, style) ==
    villa_pieces(k, style)
        \o (IF style = "blanks" THEN <<",">>
            ELSE IF style = "padded" THEN <<" ", "\n">>
            ELSE <<>>)

\* the call's environment is kept in req, with the names the value was
\* written from
VillasInit ==
    /\ users = <<>>
    /\ jar = NoJar
    /\ config = NoConfig
    /\ staff = <<>>
    /\ assigns = <<>>
    /\ ctx = [kind |-> "none"]
    /\ \/ req = [route |-> "load_villas", env |-> None, supplied |-> <<>>]
       \/ \E k \in 0..MaxVillaNames, style \in Styles :
             req = [route |-> "load_villas",
                    env |-> Some(villa_names_value(k, style)),
                    supplied |-> [i \in 1..k |-> villa_token(i, style)]]

\* VILLAS = _load_villas() of src/app.py
LoadVillas ==
    /\ ctx.kind = "none"
    /\ ctx' = [kind |-> "villas", file |-> "app.py",
               names |-> load_villas(req.env, DEFAULT_VILLAS)]
    /\ UNCHANGED <<staff, assigns, req, users, jar, config>>

\* VILLAS = _load_villas() of src/old-app.py
LoadVillasOld ==
    /\ ctx.kind = "none"
    /\ ctx' = [kind |-> "villas", file |-> "old-app.py",
               names |-> load_villas(req.env, OLD_DEFAULT_VILLAS)]
    /\ UNCHANGED <<staff, assigns, req, users, jar, config>>

VillasNext == LoadVillas \/ LoadVillasOld

SpecVillas == VillasInit /\ [][VillasNext]_vars

----------------------------------------------------------------------------
(* The memo application's requests: users, login, access code, language *)

\* users that admin_users_new may add
MaxUsers == 1

\* str.lower(), a string being the sequence of its characters (the letters
\* that occur in the lang values)
lower(s) ==
    [i \in DOMAIN s |->
        CASE s[i] = "J" -> "j" [] s[i] = "A" -> "a" [] s[i] = "E" -> "e"
          [] s[i] = "N" -> "n" [] s[i] = "Z" -> "z" [] s[i] = "H" -> "h"
          [] s[i] = "F" -> "f" [] s[i] = "R" -> "r" [] OTHER -> s[i]]

\* the keys of I18N
I18N == {<<"z", "h">>, <<"j", "a">>, <<"e", "n">>}

\* a or b for two strings that may be None
str_or(a, b) == IF str_truthy(a) THEN a ELSE b

\* mutant: the cookie wins over the query parameter
get_lang_cookie_first(arg_lang, cookie_lang) ==
    LET raw == lower(str_or(str_or(cookie_lang, arg_lang), Some(<<"z", "h">>))[1])
    IN  IF raw \in I18N THEN raw ELSE <<"z", "h">>

\* _get_lang
get_lang(arg_lang, cookie_lang) ==
    LET raw == lower(str_or(str_or(arg_lang, cookie_lang), Some(<<"z", "h">>))[1])
    IN  IF raw \in I18N THEN raw ELSE <<"z", "h">>

\* User.set_password: the stored hash of a password
password_hash(pw) == <<"pbkdf2:sha256", pw>>

\* db.session.add(User(...)): the id is the next integer
add_user(us, email, name, role, pw) ==
    Append(us, [id |-> Len(us) + 1, email |-> email, name |-> name, role |-> role,
                password_hash |-> password_hash(pw)])

\* User.query.filter_by(email=email).first() is not None
has_email(us, email) == \E i \in DOMAIN us : us[i].email = email

\* mutant: the default users are added whatever the table holds
ensure_seed_users_always(us) ==
    add_user(add_user(us, "admin@villa.local", "admin", "admin", "10051005+"),
             "stanley@villa.local", "Stanley", "staff", "0585")

\* ensure_seed_users: the User table after the call
ensure_seed_users(us) ==
    LET us1 == IF ~has_email(us, "admin@villa.local")
               THEN add_user(us, "admin@villa.local", "admin", "admin", "10051005+")
               ELSE us
    IN  IF ~has_email(us1, "stanley@villa.local")
        THEN add_user(us1, "stanley@villa.local", "Stanley", "staff", "0585")
        ELSE us1

\* load_user: the row of the id kept in the session, None without one
current_user(us, uid) ==
    IF uid # None /\ uid[1] \in DOMAIN us THEN Some(us[uid[1]]) ELSE None

\* mutant: any logged-in user passes
admin_allows_any_login(cu) == cu # None

\* admin_required: whether the wrapped view is called (else abort(403))
admin_allows(cu) == cu # None /\ cu[1].role = "admin"

\* what a view function hands back: the response, the User table, the session's
\* user id, and whether it asked for the 'ac' cookie
ViewResult(status, location, us, uid, set_access_cookie) ==
    [status |-> status, location |-> location, users |-> us, uid |-> uid,
     set_access_cookie |-> set_access_cookie]

\* login: the identifier is an email when it holds an '@', else a name;
\* User.check_password compares the stored hash
login(us, uid, method, form) ==
    LET hit == {i \in DOMAIN us :
                  IF form.ident.at THEN us[i].email = form.ident.v
                  ELSE us[i].name = form.ident.v}
        i0  == CHOOSE i \in hit : \A j \in hit : i <= j
    IN  IF method = "POST" /\ hit # {} /\ us[i0].password_hash = password_hash(form.password)
        THEN ViewResult(302, "/dashboard", us, Some(us[i0].id), FALSE)
        ELSE ViewResult(200, "", us, uid, FALSE)

\* logout
logout(us) == ViewResult(302, "/login", us, None, FALSE)

\* mutant: any POST of the form is taken for the right code
access_any_post(us, uid, method, form, access_code) ==
    IF ~str_truthy(access_code) THEN ViewResult(302, "/dashboard", us, uid, FALSE)
    ELSE IF method = "POST"
    THEN ViewResult(302, "/dashboard", us, uid, TRUE)
    ELSE ViewResult(200, "", us, uid, FALSE)

\* access: the form of the access code
access(us, uid, method, form, access_code) ==
    IF ~str_truthy(access_code) THEN ViewResult(302, "/dashboard", us, uid, FALSE)
    ELSE IF method = "POST" /\ form.access = access_code
    THEN ViewResult(302, "/dashboard", us, uid, TRUE)
    ELSE ViewResult(200, "", us, uid, FALSE)

\* dashboard, behind login_required
dashboard(us, uid) ==
    IF current_user(us, uid) = None THEN ViewResult(302, "/login", us, uid, FALSE)
    ELSE ViewResult(200, "", us, uid, FALSE)

\* admin_users_new, behind login_required and admin_required; the unique
\* email column refuses a second row of the same email (IntegrityError)
admin_users_new(us, uid, method, form) ==
    LET cu == current_user(us, uid)
    IN  IF cu = None THEN ViewResult(302, "/login", us, uid, FALSE)
        ELSE IF ~admin_allows(cu) THEN ViewResult(403, "", us, uid, FALSE)
        ELSE IF method # "POST" THEN ViewResult(200, "", us, uid, FALSE)
        ELSE IF has_email(us, form.email) THEN ViewResult(500, "", us, uid, FALSE)
        ELSE ViewResult(302, "/admin/users",
                        add_user(us, form.email, form.name, form.role, form.password),
                        uid, FALSE)

\* selftest: the POST calls ensure_seed_users
selftest(us, uid, method) ==
    ViewResult(200, "", IF method = "POST" THEN ensure_seed_users(us) ELSE us, uid, FALSE)

\* a form without fields
NoForm == [access |-> None, ident |-> [at |-> FALSE, v |-> ""], password |-> "",
           email |-> "", name |-> "", role |-> ""]

\* a request: before_request (lazy init, lang capture, access gate), the view
\* function unless the gate answered, after_request (cookies), and the
\* browser keeping the cookies of the response
memo_request(cfg, us, j, endpoint, method, arg_lang, arg_access, form) ==
    LET us0  == IF ~cfg.db_init_done THEN ensure_seed_users(us) ELSE us
        lang_to_set == IF str_truthy(arg_lang) THEN arg_lang ELSE None
        gate == access_gate(cfg.access_code, Some(<<endpoint>>), j.ac, arg_access)
        v    == CASE endpoint = "login" -> login(us0, j.uid, method, form)
                  [] endpoint = "logout" -> logout(us0)
                  [] endpoint = "access" -> access(us0, j.uid, method, form, cfg.access_code)
                  [] endpoint = "dashboard" -> dashboard(us0, j.uid)
                  [] endpoint = "admin_users_new" -> admin_users_new(us0, j.uid, method, form)
                  [] endpoint = "selftest" -> selftest(us0, j.uid, method)
        r    == IF gate.redirect THEN ViewResult(302, "/access", us0, j.uid, FALSE) ELSE v
        set_ac == IF gate.set_access_cookie \/ r.set_access_cookie
                  THEN str_or(cfg.access_code, Some(""))
                  ELSE None
    IN  [users  |-> r.users,
         config |-> [cfg EXCEPT !.db_init_done = TRUE],
         jar    |-> [ac   |-> IF set_ac # None THEN set_ac ELSE j.ac,
                     lang |-> IF lang_to_set # None THEN lang_to_set ELSE j.lang,
                     uid  |-> r.uid],
         ctx    |-> [kind |-> "response", status |-> r.status, location |-> r.location,
                     lang |-> get_lang(arg_lang, j.lang),
                     handler_ran |-> ~gate.redirect,
                     set_ac |-> set_ac, set_lang |-> lang_to_set,
                     created |-> Len(r.users) - Len(us0)]]

\* values of the access query parameter and of the access form field
AccessParams == {None, Some("s3cret"), Some("guess")}

\* identifier/password pairs typed into the login form
LoginForms ==
    {[NoForm EXCEPT !.ident = [at |-> TRUE, v |-> "admin@villa.local"], !.password = "10051005+"],
     [NoForm EXCEPT !.ident = [at |-> FALSE, v |-> "Stanley"], !.password = "0585"],
     [NoForm EXCEPT !.ident = [at |-> TRUE, v |-> "admin@villa.local"], !.password = "0585"],
     [NoForm EXCEPT !.ident = [at |-> TRUE, v |-> "kei@villa.local"], !.password = "pw"]}

\* what is typed into the new-user form
UserForms ==
    {[NoForm EXCEPT !.email = e, !.name = "Kei", !.role = r, !.password = "pw"] :
        e \in {"kei@villa.local", "mio@villa.local", "admin@villa.local"},
        r \in {"admin", "staff"}}

MemoInit ==
    /\ staff = <<>>
    /\ assigns = <<>>
    /\ users = <<>>
    /\ jar = NoJar
    /\ req = [route |-> ""]
    /\ ctx = [kind |-> "none"]
    /\ \E access_code \in AccessCodes :
          config = [db_init_done |-> FALSE, access_code |-> access_code]

\* the browser sends one request with its cookies and keeps the response's
MemoRequest(endpoint, methods, forms) ==
    /\ req.route = ""
    /\ \E method \in methods, form \in forms, arg_access \in AccessParams,
          arg_lang \in {None, Some(<<>>), Some(<<"J", "A">>), Some(<<"e", "n">>),
                        Some(<<"f", "r">>)} :
          LET out == memo_request(config, users, jar, endpoint, method,
                                  arg_lang, arg_access, form)
          IN  /\ (endpoint = "admin_users_new" /\ out.ctx.created > 0)
                    => Len(out.users) <= 2 + MaxUsers
              /\ users' = out.users
              /\ config' = out.config
              /\ jar' = out.jar
              /\ ctx' = out.ctx
              /\ req' = [route |-> "memo", endpoint |-> endpoint, method |-> method,
                         arg_lang |-> arg_lang, arg_access |-> arg_access,
                         form |-> form, cookies |-> jar, users |-> users]
    /\ UNCHANGED <<staff, assigns>>

\* /login
Login == MemoRequest("login", {"POST"}, LoginForms)

\* /logout
Logout == MemoRequest("logout", {"GET"}, {NoForm})

\* /access
Access ==
    MemoRequest("access", {"GET", "POST"}, {[NoForm EXCEPT !.access = a] : a \in AccessParams})

\* /dashboard
Dashboard == MemoRequest("dashboard", {"GET"}, {NoForm})

\* /admin/users/new
AdminUsersNew == MemoRequest("admin_users_new", {"GET", "POST"}, UserForms)

\* /selftest
Selftest == MemoRequest("selftest", {"GET", "POST"}, {NoForm})

\* the process starts again on the same database and environment
Restart ==
    /\ req.route = ""
    /\ config.db_init_done
    /\ config' = [config EXCEPT !.db_init_done = FALSE]
    /\ UNCHANGED <<staff, assigns, req, ctx, users, jar>>

\* the response is sent
MemoTeardown ==
    /\ req.route = "memo"
    /\ req' = [route |-> ""]
    /\ ctx' = [kind |-> "none"]
    /\ UNCHANGED <<staff, assigns, users, jar, config>>

MemoNext ==
    Login \/ Logout \/ Access \/ Dashboard \/ AdminUsersNew \/ Selftest \/ Restart
        \/ MemoTeardown

SpecMemo == MemoInit /\ [][MemoNext]_vars

----------------------------------------------------------------------------
(* The SQLite URI helper (_prepare_sqlite_uri) of both applications.  URIs  *)
(* and paths are sequences of characters; a pathlib.Path is its root and    *)
(* its parts.  What the file system answers to mkdir and touch is drawn     *)
(* with the call: fs says which of the calls succeed.                       *)

\* str.startswith(prefix)
startswith(s, prefix) ==
    Len(s) >= Len(prefix) /\ SubSeq(s, 1, Len(prefix)) = prefix

\* str.lstrip(ch) for one character ch
lstrip(s, ch) ==
    LET keep == {i \in DOMAIN s : s[i] # ch}
    IN  IF keep = {} THEN <<>>
        ELSE SubSeq(s, CHOOSE i \in keep : \A j \in keep : i <= j, Len(s))

\* pathlib.PurePosixPath(s): the root is '/' for one or for three and more
\* leading slashes, '//' for exactly two; empty parts and '.' parts are dropped
Path(s) ==
    LET lead == Len(s) - Len(lstrip(s, "/"))
    IN  [root  |-> IF lead = 0 THEN <<>>
                   ELSE IF lead = 2 THEN <<"/", "/">> ELSE <<"/">>,
         parts |-> SelectSeq(split(s, "/"), LAMBDA p : p # <<>> /\ p # <<".">>)]

\* '/'.join(parts)
RECURSIVE join_parts(_)
join_parts(parts) ==
    IF parts = <<>> THEN <<>>
    ELSE IF Len(parts) = 1 THEN parts[1]
    ELSE parts[1] \o <<"/">> \o join_parts(Tail(parts))

\* str(path); the empty relative path is '.'
path_str(p) ==
    IF p.root = <<>> /\ p.parts = <<>> THEN <<".">>
    ELSE p.root \o join_parts(p.parts)

\* base / rel: an absolute rel takes the place of base
path_join(base, rel) ==
    LET r == Path(rel)
    IN  IF r.root # <<>> THEN r
        ELSE [root |-> base.root, parts |-> base.parts \o r.parts]

SQLITE == <<"s","q","l","i","t","e">>
SQLITE3 == SQLITE \o <<":","/","/","/">>
SQLITE4 == SQLITE3 \o <<"/">>

\* '/tmp/gntdata'
GNT_DATA == <<"/","t","m","p","/","g","n","t","d","a","t","a">>

\* '/tmp/vsmdata'
VSM_DATA == <<"/","t","m","p","/","v","s","m","d","a","t","a">>

\* 'sqlite:////' + str(path).lstrip('/')
uri_of(p) == SQLITE4 \o lstrip(path_str(p), "/")

\* the except branch, for panic.db in the default directory tmp: the
\* directory is made outside any try, the touch inside one
panic_uri(tmp, fs) ==
    IF fs.tmp_mkdir
    THEN Ok(uri_of(Path(tmp \o <<"/","p","a","n","i","c",".","d","b">>)))
    ELSE Raise("OSError")

\* os.environ.get('DATA_DIR') or default
safe_base_of(data_dir, default) ==
    IF data_dir = None \/ data_dir[1] = <<>> THEN default ELSE data_dir[1]

\* _prepare_sqlite_uri of the gantt application
prepare_sqlite_uri(raw, data_dir, fs) ==
    IF raw = <<>> \/ ~startswith(raw, SQLITE) THEN Ok(raw)
    ELSE LET base == Path(safe_base_of(data_dir, GNT_DATA))
         IN  IF ~fs.base_mkdir THEN panic_uri(GNT_DATA, fs)
             ELSE IF startswith(raw, SQLITE4)
             THEN LET abs_path == Path(<<"/">> \o SubSeq(raw, Len(SQLITE4) + 1, Len(raw)))
                  IN  IF ~fs.parent_mkdir THEN panic_uri(GNT_DATA, fs)
                      ELSE Ok(uri_of(abs_path))
             ELSE IF startswith(raw, SQLITE3)
             THEN LET rel == SubSeq(raw, Len(SQLITE3) + 1, Len(raw))
                      dbf == path_join(base, rel)
                  IN  Ok(uri_of(dbf))
             ELSE Ok(raw)

\* _prepare_sqlite_uri of the memo application: a relative file that cannot be
\* made gives way to the fallback file
prepare_sqlite_uri_memo(raw, data_dir, fs) ==
    IF raw = <<>> \/ ~startswith(raw, SQLITE) THEN Ok(raw)
    ELSE LET base_path == Path(safe_base_of(data_dir, VSM_DATA))
         IN  IF ~fs.base_mkdir THEN panic_uri(VSM_DATA, fs)
             ELSE IF startswith(raw, SQLITE4)
             THEN LET abs_path == Path(<<"/">> \o SubSeq(raw, Len(SQLITE4) + 1, Len(raw)))
                  IN  IF ~fs.parent_mkdir THEN panic_uri(VSM_DATA, fs)
                      ELSE Ok(uri_of(abs_path))
             ELSE IF startswith(raw, SQLITE3)
             THEN LET rel == SubSeq(raw, Len(SQLITE3) + 1, Len(raw))
                      db_file == path_join(base_path, rel)
                  IN  IF fs.parent_mkdir /\ fs.touch THEN Ok(uri_of(db_file))
                      ELSE IF ~fs.tmp_mkdir THEN panic_uri(VSM_DATA, fs)
                      ELSE Ok(uri_of(Path(VSM_DATA \o
                              <<"/","f","a","l","l","b","a","c","k",".","d","b">>)))
             ELSE Ok(raw)

\* DATABASE_URL values: '', 'pg://d', 'sqlite://', 'sqlite:///g.db',
\* 'sqlite:///sub/g.db', 'sqlite:///./g.db', 'sqlite:////var/g.db',
\* 'sqlite:////var//./g.db'
RawUris ==
    {<<>>,
     <<"p","g",":","/","/","d">>,
     SQLITE \o <<":","/","/">>,
     SQLITE3 \o <<"g",".","d","b">>,
     SQLITE3 \o <<"s","u","b","/","g",".","d","b">>,
     SQLITE3 \o <<".","/","g",".","d","b">>,
     SQLITE4 \o <<"v","a","r","/","g",".","d","b">>,
     SQLITE4 \o <<"v","a","r","/","/",".","/","g",".","d","b">>}

\* DATA_DIR: unset, '', '/srv/d', '/srv/d/' and the relative 'data'
DataDirs ==
    {None, Some(<<>>), Some(<<"/","s","r","v","/","d">>),
     Some(<<"/","s","r","v","/","d","/">>), Some(<<"d","a","t","a">>)}

\* fs: which of the calls succeed: base.mkdir, the file's parent.mkdir, touch,
\* and mkdir of the default directory in a handler
UriInit ==
    /\ users = <<>>
    /\ jar = NoJar
    /\ config = NoConfig
    /\ staff = <<>>
    /\ assigns = <<>>
    /\ ctx = [kind |-> "none"]
    /\ \E app \in {"gantt", "memo"}, raw \in RawUris, data_dir \in DataDirs,
          fs \in [base_mkdir : BOOLEAN, parent_mkdir : BOOLEAN, touch : BOOLEAN,
                  tmp_mkdir : BOOLEAN] :
          req = [route |-> "prepare_sqlite_uri", app |-> app, raw |-> raw,
                 data_dir |-> data_dir, fs |-> fs]

\* app.config['SQLALCHEMY_DATABASE_URI'] = _prepare_sqlite_uri(raw_db), gantt
PrepareSqliteUri ==
    /\ ctx.kind = "none"
    /\ req.app = "gantt"
    /\ ctx' = [kind |-> "uri", result |-> prepare_sqlite_uri(req.raw, req.data_dir, req.fs)]
    /\ UNCHANGED <<staff, assigns, req, users, jar, config>>

\* app.config['SQLALCHEMY_DATABASE_URI'] = _prepare_sqlite_uri(...), memo
PrepareSqliteUriMemo ==
    /\ ctx.kind = "none"
    /\ req.app = "memo"
    /\ ctx' = [kind |-> "uri",
               result |-> prepare_sqlite_uri_memo(req.raw, req.data_dir, req.fs)]
    /\ UNCHANGED <<staff, assigns, req, users, jar, config>>

UriNext == PrepareSqliteUri \/ PrepareSqliteUriMemo

SpecUri == UriInit /\ [][UriNext]_vars

----------------------------------------------------------------------------
(* Concurrent requests of the gantt application: two threads (gunicorn     *)
(* -k gthread) or processes on one database.  Every SQL statement and      *)
(* every commit is one step; req and ctx hold each thread's locals and     *)
(* response.                                                               *)

Threads == {1, 2}

\* the fields of the /assign/new form
AssignForm(title, staff_id, start, end, memo) ==
    [title |-> title, staff_id |-> staff_id, start |-> start, end |-> end, memo |-> memo]

\* a thread's locals: where it is in its handler, the request, the count that
\* ensure_db_seed read (None before), and the Staff rows that the handler read
Local(pc, route, qs_start, qs_weeks, form, cnt, staff_read) ==
    [pc |-> pc, route |-> route, qs_start |-> qs_start, qs_weeks |-> qs_weeks,
     form |-> form, cnt |-> cnt, staff_read |-> staff_read]

NoLocal == Local("idle", "", Absent, Absent, AssignForm("", 0, Absent, Absent, ""), None, <<>>)

\* the flush of the seed rows: the unique name column refuses a name that a
\* committed row already has
seed_insert(st) ==
    IF \E i \in DOMAIN st : \E j \in DOMAIN Seeds : st[i].name = Seeds[j][1]
    THEN Raise("IntegrityError")
    ELSE Ok(st \o [i \in 1..Len(Seeds) |->
                     [id |-> Len(st) + i, name |-> Seeds[i][1], color |-> Seeds[i][2]]])

ConcurrentInit ==
    /\ users = <<>>
    /\ jar = NoJar
    /\ config = NoConfig
    /\ staff = <<>>
    /\ assigns = <<>>
    /\ req = [t \in Threads |-> NoLocal]
    /\ ctx = [t \in Threads |-> NoCtx]

\* a request arrives at thread t: GET /gantt?start=..&weeks=..
BeginGantt(t) ==
    /\ req[t].pc = "idle"
    /\ \E qs_weeks \in {IntStr(1), IntStr(2)} :
          req' = [req EXCEPT ![t] = Local("count", "gantt", DateStr(MinDate), qs_weeks,
                                          AssignForm("", 0, Absent, Absent, ""), None, <<>>)]
    /\ UNCHANGED <<staff, assigns, ctx, users, jar, config>>

\* a request arrives at thread t: POST /assign/new
BeginNewAssign(t) ==
    /\ req[t].pc = "idle"
    /\ \E f_start \in {DateStr(MinDate), DateStr(MinDate + DateStep)},
          f_end \in {DateStr(MinDate), DateStr(MinDate + DateStep)} :
          req' = [req EXCEPT ![t] = Local("count", "new_assign", Absent, Absent,
                                          AssignForm("Task", 1, f_start, f_end, "memo"),
                                          None, <<>>)]
    /\ UNCHANGED <<staff, assigns, ctx, users, jar, config>>

\* ensure_db_seed: Staff.query.count()
SeedCountStaff(t) ==
    /\ req[t].pc = "count"
    /\ req' = [req EXCEPT ![t].cnt = Some(Len(staff)),
                          ![t].pc = IF Len(staff) = 0 THEN "seed" ELSE "staff"]
    /\ UNCHANGED <<staff, assigns, ctx, users, jar, config>>

\* ensure_db_seed: the adds and db.session.commit(); an IntegrityError leaves
\* the handler and Flask answers 500
SeedCommit(t) ==
    /\ req[t].pc = "seed"
    /\ LET r == seed_insert(staff)
       IN  IF r.ok
           THEN /\ staff' = r.val
                /\ req' = [req EXCEPT ![t].pc = "staff"]
                /\ ctx' = ctx
           ELSE /\ staff' = staff
                /\ req' = [req EXCEPT ![t].pc = "done"]
                /\ ctx' = [ctx EXCEPT ![t] = Failed(r.err, 0)]
    /\ UNCHANGED <<assigns, users, jar, config>>

\* staff_list = Staff.query.order_by(Staff.name.asc()).all()
ReadStaff(t) ==
    /\ req[t].pc = "staff"
    /\ req' = [req EXCEPT ![t].staff_read = staff,
                          ![t].pc = IF req[t].route = "gantt" THEN "items" ELSE "insert"]
    /\ UNCHANGED <<staff, assigns, ctx, users, jar, config>>

\* gantt: items = q.all(), the loop over items and the template
ReadItemsAndRender(t) ==
    /\ req[t].pc = "items"
    /\ LET c == gantt(req[t].staff_read, assigns, req[t].qs_start, req[t].qs_weeks, MinDate)
       IN  /\ ctx' = [ctx EXCEPT ![t] = c]
           /\ assigns' = rows_after_gantt(assigns, c)
    /\ req' = [req EXCEPT ![t].pc = "done"]
    /\ UNCHANGED <<staff, users, jar, config>>

\* new_assign: the form is read, the row is added and committed
InsertAssign(t) ==
    /\ req[t].pc = "insert"
    /\ Len(assigns) < MaxAssign
    /\ LET f     == req[t].form
           start == parse_date(f.start)
           end   == parse_date(f.end)
           se    == normalize_range(start.val, end.val)
       IN  /\ assigns' = insert_assign(assigns, f.title, f.staff_id, se[1], se[2], f.memo)
           /\ ctx' = [ctx EXCEPT ![t] = Plain("redirect", 302, staff_query(req[t].staff_read))]
    /\ req' = [req EXCEPT ![t].pc = "done"]
    /\ UNCHANGED <<staff, users, jar, config>>

\* the response of thread t is sent
Finish(t) ==
    /\ req[t].pc = "done"
    /\ req' = [req EXCEPT ![t] = NoLocal]
    /\ ctx' = [ctx EXCEPT ![t] = NoCtx]
    /\ UNCHANGED <<staff, assigns, users, jar, config>>

ConcurrentNext ==
    \E t \in Threads :
        \/ BeginGantt(t)
        \/ BeginNewAssign(t)
        \/ SeedCountStaff(t)
        \/ SeedCommit(t)
        \/ ReadStaff(t)
        \/ ReadItemsAndRender(t)
        \/ InsertAssign(t)
        \/ Finish(t)

SpecConcurrent == ConcurrentInit /\ [][ConcurrentNext]_vars

----------------------------------------------------------------------------
(* Properties *)

\* the rows of items that belong to staff id sid, in the order of items
ItemsOf(sid) == SelectSeq(ctx.items, LAMBDA r : r.staff_id = sid)

\* the stored rows the window of ctx overlaps
Overlapping == {i \in DOMAIN assigns :
                  assigns[i].end_date >= ctx.tl.start /\ assigns[i].start_date <= ctx.tl.end}

RECURSIVE SumLen(_, _)
SumLen(f, S) ==
    IF S = {} THEN 0
    ELSE LET x == CHOOSE y \in S : TRUE IN Len(f[x]) + SumLen(f, S \ {x})

\* C1: a GET /gantt request, whatever its start date and week count, leaves
\* the Assign table as it was: the same rows, each with the start_date and
\* end_date it had, also a row reaching past both ends of the window.
C1_RenderKeepsStore ==
    [][req'.route = "gantt" =>
          /\ Len(assigns') = Len(assigns)
          /\ \A i \in DOMAIN assigns :
                /\ assigns'[i].start_date = assigns[i].start_date
                /\ assigns'[i].end_date = assigns[i].end_date]_vars

\* a row reaching past both ends of the window has been rendered, clamped at
\* both ends
C1_Witness ==
    /\ ctx.kind = "gantt"
    /\ \E i \in DOMAIN assigns :
          /\ assigns[i].start_date < ctx.tl.start
          /\ assigns[i].end_date > ctx.tl.end
          /\ assigns[i].staff_id \in DOMAIN ctx.grouped
          /\ \E j \in DOMAIN ctx.grouped[assigns[i].staff_id] :
                LET v == ctx.grouped[assigns[i].staff_id][j]
                IN  v.start_date = ctx.tl.start /\ v.end_date = ctx.tl.end

\* C2: every rendered view is its source row clamped to the window:
\* start_date = max(A.start_date, T.start), end_date = min(A.end_date, T.end),
\* start_date <= end_date, and both dates lie in [T.start, T.end].
C2_ClampedView ==
    ctx.kind = "gantt" =>
        \A sid \in DOMAIN ctx.grouped :
            LET src == ItemsOf(sid)
                g   == ctx.grouped[sid]
            IN  /\ Len(g) = Len(src)
                /\ \A j \in DOMAIN g :
                      /\ src[j].end_date >= ctx.tl.start
                      /\ src[j].start_date <= ctx.tl.end
                      /\ g[j].start_date = Max(src[j].start_date, ctx.tl.start)
                      /\ g[j].end_date = Min(src[j].end_date, ctx.tl.end)
                      /\ g[j].start_date <= g[j].end_date
                      /\ ctx.tl.start <= g[j].start_date
                      /\ g[j].end_date <= ctx.tl.end

\* a view clamped at the window's start only
C2_Witness ==
    /\ ctx.kind = "gantt"
    /\ \E sid \in DOMAIN ctx.grouped :
          \E j \in DOMAIN ctx.grouped[sid] :
              /\ ItemsOf(sid)[j].start_date < ctx.tl.start
              /\ ItemsOf(sid)[j].end_date < ctx.tl.end
              /\ ctx.grouped[sid][j].start_date = ctx.tl.start
              /\ ctx.grouped[sid][j].end_date = ItemsOf(sid)[j].end_date

\* C3: every bar the template draws has column = (clamped_start - T.start) + 1
\* and span = (clamped_end - clamped_start) + 1, with column in 1..len(days)
\* and span in 1..(len(days) - column + 1).
C3_BarInGrid ==
    ctx.kind = "gantt" =>
        \A i \in DOMAIN ctx.lanes :
            LET g == ctx.grouped[ctx.lanes[i].staff_id]
                b == ctx.lanes[i].bars
                n == Len(ctx.tl.days)
            IN  /\ Len(b) = Len(g)
                /\ \A j \in DOMAIN b :
                      /\ b[j].start = (g[j].start_date - ctx.tl.start) + 1
                      /\ b[j].span = (g[j].end_date - g[j].start_date) + 1
                      /\ 1 <= b[j].start /\ b[j].start <= n
                      /\ 1 <= b[j].span /\ b[j].span <= n - b[j].start + 1

\* a bar that starts after the first column and ends in the last one
C3_Witness ==
    /\ ctx.kind = "gantt"
    /\ \E i \in DOMAIN ctx.lanes :
          \E j \in DOMAIN ctx.lanes[i].bars :
              LET b == ctx.lanes[i].bars[j]
              IN  b.start > 1 /\ b.span > 1 /\ b.start + b.span - 1 = Len(ctx.tl.days)

\* C4: every stored Assignment the window overlaps is rendered exactly once:
\* the buckets together hold as many views as there are overlapping rows,
\* whatever staff_id a row was created with.
C4_EveryOverlapRendered ==
    ctx.kind = "gantt" =>
        SumLen(ctx.grouped, DOMAIN ctx.grouped) = Cardinality(Overlapping)

\* C5: the query returns exactly the stored rows with end_date >= T.start and
\* start_date <= T.end, each once and as stored (a single-day row iff its day
\* is in the window), and overlap() decides the same rows.
C5_OverlapQueryExact ==
    ctx.kind = "gantt" =>
        /\ Len(ctx.items) = Cardinality(Overlapping)
        /\ \A k \in DOMAIN ctx.items : ctx.items[k] = assigns[ctx.items[k].id]
        /\ {ctx.items[k].id : k \in DOMAIN ctx.items} = Overlapping
        /\ \A i \in DOMAIN assigns :
              /\ overlap(assigns[i].start_date, assigns[i].end_date,
                         ctx.tl.start, ctx.tl.end) <=> (i \in Overlapping)
              /\ assigns[i].start_date = assigns[i].end_date =>
                    ((\E k \in DOMAIN ctx.items : ctx.items[k].id = i)
                       <=> (ctx.tl.start <= assigns[i].start_date
                              /\ assigns[i].start_date <= ctx.tl.end))

\* the query kept a single-day row on the window's last day and left out a row
\* that starts after the window
C5_Witness ==
    /\ ctx.kind = "gantt"
    /\ \E k \in DOMAIN ctx.items :
          /\ ctx.items[k].start_date = ctx.tl.end
          /\ ctx.items[k].end_date = ctx.tl.end
    /\ \E i \in DOMAIN assigns : assigns[i].start_date > ctx.tl.end

\* C6: the query result is in ascending start_date order, rows with the same
\* start_date in ascending id order.
C6_QueryOrder ==
    ctx.kind = "gantt" =>
        \A k \in 1..(Len(ctx.items) - 1) :
            \/ ctx.items[k].start_date < ctx.items[k + 1].start_date
            \/ /\ ctx.items[k].start_date = ctx.items[k + 1].start_date
               /\ ctx.items[k].id < ctx.items[k + 1].id

\* two rows with the same start_date are in the result, the one inserted
\* first ending later
C6_Witness ==
    /\ ctx.kind = "gantt"
    /\ \E k \in 1..(Len(ctx.items) - 1) :
          /\ ctx.items[k].start_date = ctx.items[k + 1].start_date
          /\ ctx.items[k].end_date > ctx.items[k + 1].end_date

\* C7: a POST /assign/new whose end is earlier than its start is accepted and
\* stores the two dates swapped: start_date is the submitted end, end_date
\* the submitted start.
C7_ReversedRangeSwapped ==
    (/\ req.route = "new_assign" /\ req.method = "POST"
     /\ req.start.k = "ymd" /\ req.end.k = "ymd"
     /\ req.end.v < req.start.v)
    => /\ ctx.kind = "redirect"
       /\ Len(assigns) >= 1
       /\ assigns[Len(assigns)].start_date = req.end.v
       /\ assigns[Len(assigns)].end_date = req.start.v

\* a reversed range has been posted and stored
C7_Witness ==
    /\ req.route = "new_assign" /\ req.method = "POST"
    /\ req.start.k = "ymd" /\ req.end.k = "ymd"
    /\ req.end.v < req.start.v
    /\ ctx.kind = "redirect"
    /\ assigns[Len(assigns)].start_date < assigns[Len(assigns)].end_date

\* C8: every stored Assignment has end_date >= start_date, in every state.
C8_EndNotBeforeStart ==
    \A i \in DOMAIN assigns : assigns[i].end_date >= assigns[i].start_date

\* the table is full, a reversed range was the last one posted, and rows have
\* been rendered before
C8_Witness ==
    /\ Len(assigns) = MaxAssign
    /\ req.route = "new_assign" /\ req.method = "POST"
    /\ req.start.k = "ymd" /\ req.end.k = "ymd"
    /\ req.end.v < req.start.v
    /\ \E i \in DOMAIN assigns : assigns[i].start_date < assigns[i].end_date

\* the date build_timeline was asked for: start, or today when start is None
Requested == IF req.start = None THEN req.today ELSE req.start[1]

\* C9: the Timeline build_timeline returns starts on a Monday, at
\* monday_of(D), and not after D, for every requested date D.
\* (738886 is 2024-01-01, a Monday.)
C9_StartIsMonday ==
    ctx.kind = "timeline" =>
        /\ (ctx.tl.start - 738886) % 7 = 0
        /\ ctx.tl.start = monday_of(Requested)
        /\ ctx.tl.start <= Requested

\* a Timeline built for a Sunday, and so starting six days earlier
C9_Witness ==
    /\ ctx.kind = "timeline"
    /\ req.start # None
    /\ Requested - ctx.tl.start = 6

\* C10: for a week count W >= 1 the Timeline's days are start, start+1, ...,
\* start+7W-1, and its end is the last of them, start + 7W - 1.
C10_DaysConsecutive ==
    (req.route = "build_timeline" /\ ctx.kind # "none" /\ req.weeks >= 1) =>
        /\ ctx.kind = "timeline"
        /\ Len(ctx.tl.days) = 7 * req.weeks
        /\ \A i \in DOMAIN ctx.tl.days : ctx.tl.days[i] = ctx.tl.start + (i - 1)
        /\ ctx.tl.end = ctx.tl.days[Len(ctx.tl.days)]
        /\ ctx.tl.end = ctx.tl.start + 7 * req.weeks - 1

\* a Timeline of more than one week
C10_Witness ==
    /\ ctx.kind = "timeline"
    /\ req.weeks >= 2
    /\ Len(ctx.tl.days) = 7 * req.weeks

\* C11: a week count W <= 0 is rejected with InvalidWeekCount or clamped to
\* one week; GET /gantt fails in no other way for it.  (A ValueError comes
\* from an unreadable start parameter, not from W.)
C11_NonPositiveWeeksHandled ==
    (/\ req.route = "gantt"
     /\ req.weeks.k = "int" /\ req.weeks.v <= 0
     /\ ctx.err # "ValueError")
    => \/ ctx.kind = "error" /\ ctx.err = "InvalidWeekCount"
       \/ ctx.kind = "gantt" /\ Len(ctx.tl.days) = 7

\* C12: the grouped map has a key for every staff member of staff_list (every
\* row of the Staff table), mapped to the empty sequence when no item of the
\* window is that member's.
C12_EveryStaffHasBucket ==
    ctx.kind = "gantt" =>
        /\ Len(ctx.staff_list) = Len(staff)
        /\ Len(staff) > 0
        /\ \A i \in DOMAIN staff : \E j \in DOMAIN ctx.staff_list : ctx.staff_list[j] = staff[i]
        /\ \A j \in DOMAIN ctx.staff_list :
              /\ ctx.staff_list[j].id \in DOMAIN ctx.grouped
              /\ Len(ItemsOf(ctx.staff_list[j].id)) = 0
                    => ctx.grouped[ctx.staff_list[j].id] = <<>>

\* one member's bucket holds a view while the member listed last has none
C12_Witness ==
    /\ ctx.kind = "gantt"
    /\ \E sid \in DOMAIN ctx.grouped : Len(ctx.grouped[sid]) > 0
    /\ ctx.grouped[ctx.staff_list[Len(ctx.staff_list)].id] = <<>>

\* C13: on a rendered /gantt, the bucket of every staff member holds one view
\* per overlapping assignment of that staff member and of no other, and the
\* views stand in the order in which their assignments stand in the overlap
\* query's result (start date ascending, then id ascending).
C13_BucketKeepsQueryOrder ==
    ctx.kind = "gantt" =>
        \A sid \in DOMAIN ctx.grouped :
            LET src == ItemsOf(sid)
                b   == ctx.grouped[sid]
            IN  /\ Len(b) = Len(src)
                /\ \A j \in DOMAIN b :
                      /\ b[j].title = src[j].title
                      /\ b[j].memo = src[j].memo
                      /\ b[j].start_date = Max(src[j].start_date, ctx.tl.start)
                      /\ b[j].end_date = Min(src[j].end_date, ctx.tl.end)
                /\ \A j \in 1..(Len(b) - 1) : b[j].start_date <= b[j + 1].start_date

\* a bucket of two different views whose first source was stored last, next
\* to a staff member with no view
C13_Witness ==
    /\ ctx.kind = "gantt"
    /\ \E sid \in DOMAIN ctx.grouped :
          /\ Len(ctx.grouped[sid]) = 2
          /\ ctx.grouped[sid][1] # ctx.grouped[sid][2]
          /\ ItemsOf(sid)[1].id = 2
    /\ \E sid \in DOMAIN ctx.grouped : ctx.grouped[sid] = <<>>

\* C14: a POST /assign/new whose start or end field is no '%Y-%m-%d' date is
\* answered with an error, and the Assign table is left as it was: no row is
\* added and no row is changed.
C14_UnparseableDateRejected ==
    [][(/\ req'.route = "new_assign" /\ req'.method = "POST"
        /\ (req'.start.k # "ymd" \/ req'.end.k # "ymd"))
       => (/\ assigns' = assigns
           /\ ctx'.kind = "error"
           /\ ctx'.status = 500
           /\ ctx'.err = "ValueError")]_vars

\* a form with a good start and a bad end was refused while a row was stored
C14_Witness ==
    /\ req.route = "new_assign" /\ req.method = "POST"
    /\ req.start.k = "ymd" /\ req.end.k = "garbage"
    /\ ctx.kind = "error"
    /\ Len(assigns) >= 1

\* C15: whatever the request, every stored Assign row stays in the table
\* unchanged; the table changes only by a POST /assign/new adding one row.
C15_StoreAppendOnly ==
    [][/\ Len(assigns') >= Len(assigns)
       /\ \A i \in DOMAIN assigns : assigns'[i] = assigns[i]
       /\ assigns' # assigns =>
             /\ Len(assigns') = Len(assigns) + 1
             /\ req'.route = "new_assign" /\ req'.method = "POST"]_vars

\* a second row was just added behind a first one
C15_Witness ==
    /\ req.route = "new_assign" /\ req.method = "POST"
    /\ ctx.kind = "redirect"
    /\ Len(assigns) = 2
    /\ assigns[1] # assigns[2]

\* C16: every stored Assign row carries the id of a row of the Staff table.
C16_StaffExists ==
    \A i \in DOMAIN assigns : \E j \in DOMAIN staff : staff[j].id = assigns[i].staff_id

\* C17: GET /gantt?start=2024-01-01&weeks=2 shows the 14 days 2024-01-01 to
\* 2024-01-14, and every assignment from 2024-01-10 to 2024-01-20 of a listed
\* staff member is drawn as a bar at column 10 that spans 5 columns.
C17_JanuaryExample ==
    (/\ req.route = "gantt"
     /\ req.start = DateStr(toordinal(2024, 1, 1))
     /\ req.weeks = IntStr(2))
    => /\ ctx.kind = "gantt"
       /\ Len(ctx.tl.days) = 14
       /\ ctx.tl.start = toordinal(2024, 1, 1)
       /\ ctx.tl.end = toordinal(2024, 1, 14)
       /\ \A i \in 1..14 : ctx.tl.days[i] = toordinal(2024, 1, i)
       /\ \A l \in DOMAIN ctx.lanes :
             LET src == ItemsOf(ctx.lanes[l].staff_id)
             IN  /\ Len(ctx.lanes[l].bars) = Len(src)
                 /\ \A j \in DOMAIN src :
                       (/\ src[j].start_date = toordinal(2024, 1, 10)
                        /\ src[j].end_date = toordinal(2024, 1, 20))
                       => ctx.lanes[l].bars[j] = [start |-> 10, span |-> 5]

\* the example's window was rendered with the example's assignment in a lane
C17_Witness ==
    /\ req.route = "gantt"
    /\ req.start = DateStr(toordinal(2024, 1, 1))
    /\ req.weeks = IntStr(2)
    /\ ctx.kind = "gantt"
    /\ \E l \in DOMAIN ctx.lanes : \E j \in DOMAIN ctx.lanes[l].bars :
          /\ ItemsOf(ctx.lanes[l].staff_id)[j].start_date = toordinal(2024, 1, 10)
          /\ ItemsOf(ctx.lanes[l].staff_id)[j].end_date = toordinal(2024, 1, 20)
          /\ ctx.lanes[l].bars[j].span = 5

\* C18: with a non-empty ACCESS_CODE, a request whose endpoint is none of
\* health, access, static, login, selftest and whose 'ac' cookie and 'access'
\* query parameter both differ from the code is answered with the redirect to
\* /access and its view function does not run; with ACCESS_CODE unset (or
\* empty) every request reaches its view function.
C18_AccessGate ==
    req.route = "gated" =>
        LET code    == req.access_code
            gated   == str_truthy(code)
            named   == IF req.endpoint = None THEN "" ELSE req.endpoint[1][1]
            carries == req.cookie_ac = code \/ req.arg_access = code
        IN  /\ (gated /\ named \notin {"health", "access", "static", "login", "selftest"}
                      /\ ~carries)
               => (/\ ctx.kind = "redirect"
                   /\ ctx.status = 302
                   /\ ctx.location = "/access"
                   /\ ~ctx.handler_ran)
            /\ ~gated => (ctx.kind = "dispatched" /\ ctx.handler_ran)

\* a request for the dashboard with a wrong cookie and a wrong query parameter
\* was turned away
C18_Witness ==
    /\ req.route = "gated"
    /\ req.access_code = Some("s3cret")
    /\ req.endpoint = Some(<<"dashboard">>)
    /\ req.cookie_ac = Some("guess")
    /\ req.arg_access = Some("")
    /\ ctx.kind = "redirect"
    /\ ~ctx.handler_ran

\* C19: _load_villas returns 24 names whatever VILLA_NAMES holds. When the
\* value holds names, these come first in their order, at most 24 of them, and
\* every later position i up to 24 holds 'Villa ' and the two digits of i.
\* When the variable is unset or blank, the built-in names take the place of
\* the supplied ones.
C19_TwentyFourVillas ==
    ctx.kind = "villas" =>
        LET blank == req.env = None
                     \/ \A i \in DOMAIN req.env[1] : req.env[1][i] \in {" ", "\n"}
            given == IF ~blank THEN req.supplied
                     ELSE IF ctx.file = "app.py" THEN DEFAULT_VILLAS
                     ELSE OLD_DEFAULT_VILLAS
            n     == IF Len(given) < 24 THEN Len(given) ELSE 24
        IN  /\ Len(ctx.names) = 24
            /\ \A i \in 1..n : ctx.names[i] = given[i]
            /\ \A i \in (n + 1)..24 :
                  ctx.names[i] = <<"V", "i", "l", "l", "a", " ",
                                   Digit(i \div 10), Digit(i % 10)>>

\* seven names were supplied with blank pieces between them: seventeen
\* positions were filled
C19_Witness ==
    /\ ctx.kind = "villas"
    /\ Len(req.supplied) = 7
    /\ req.env # None
    /\ \E i \in 1..(Len(req.env[1]) - 1) : req.env[1][i] = "," /\ req.env[1][i + 1] = " "
    /\ ctx.names[7] = <<"v", "0", "7">>
    /\ ctx.names[8] = <<"V", "i", "l", "l", "a", " ", "0", "8">>
    /\ ctx.names[24] = <<"V", "i", "l", "l", "a", " ", "2", "4">>

\* C20: once ensure_db_seed has been called, by a handler or directly, and
\* however many calls and requests follow, the Staff table holds nine rows:
\* each name of SEED_STAFF exactly once, no name twice, nothing else.
C20_SeededOnce ==
    /\ req.route \in {"gantt", "new_assign"} => staff # <<>>
    /\ staff # <<>> =>
          /\ Len(staff) = 9
          /\ \A k \in DOMAIN SEED_STAFF :
                Cardinality({i \in DOMAIN staff : staff[i].name = SEED_STAFF[k][1]}) = 1
          /\ \A i, j \in DOMAIN staff : staff[i].name = staff[j].name => i = j
          /\ \A i, j \in DOMAIN staff : staff[i].id = staff[j].id => i = j

\* the table is seeded after at least three calls, two of them with an insertion
C20_Witness ==
    /\ Len(staff) = 9
    /\ Len(assigns) = 2
    /\ req.route = "gantt"
    /\ ctx.kind = "gantt"

\* C21: once ensure_seed_users has run, and however many calls follow (lazy
\* init after a restart, POST /selftest), the User table holds exactly one
\* row of email admin@villa.local, with role admin, and exactly one of email
\* stanley@villa.local, with role staff, each with the password it was seeded
\* with.
C21_SeedUsersOnce ==
    users # <<>> =>
        /\ Cardinality({i \in DOMAIN users : users[i].email = "admin@villa.local"}) = 1
        /\ Cardinality({i \in DOMAIN users : users[i].email = "stanley@villa.local"}) = 1
        /\ \A i \in DOMAIN users :
              /\ users[i].email = "admin@villa.local"
                    => /\ users[i].role = "admin"
                       /\ users[i].name = "admin"
                       /\ users[i].password_hash = <<"pbkdf2:sha256", "10051005+">>
              /\ users[i].email = "stanley@villa.local"
                    => /\ users[i].role = "staff"
                       /\ users[i].name = "Stanley"
                       /\ users[i].password_hash = <<"pbkdf2:sha256", "0585">>

\* POST /selftest called ensure_seed_users on a table that held the default
\* users and one more
C21_Witness ==
    /\ req.route = "memo"
    /\ req.endpoint = "selftest" /\ req.method = "POST"
    /\ Len(req.users) = 3
    /\ Len(users) = 3

\* C22: on a rendered /gantt, a bar whose assignment starts and ends on the
\* window's last day stands at the last column with span 1, and a bar whose
\* assignment starts and ends on the window's first day stands at column 1
\* with span 1.
C22_EdgeDays ==
    ctx.kind = "gantt" =>
        \A l \in DOMAIN ctx.lanes :
            LET src == ItemsOf(ctx.lanes[l].staff_id)
            IN  /\ Len(ctx.lanes[l].bars) = Len(src)
                /\ \A j \in DOMAIN src :
                      /\ (src[j].start_date = ctx.tl.end /\ src[j].end_date = ctx.tl.end)
                            => ctx.lanes[l].bars[j] = [start |-> Len(ctx.tl.days), span |-> 1]
                      /\ (src[j].start_date = ctx.tl.start /\ src[j].end_date = ctx.tl.start)
                            => ctx.lanes[l].bars[j] = [start |-> 1, span |-> 1]

\* one lane shows a bar on the first day and a bar on the last day of the
\* two-week window
C22_Witness ==
    /\ ctx.kind = "gantt"
    /\ Len(ctx.tl.days) = 14
    /\ \E l \in DOMAIN ctx.lanes :
          /\ Len(ctx.lanes[l].bars) = 2
          /\ ItemsOf(ctx.lanes[l].staff_id)[1].end_date = ctx.tl.start
          /\ ItemsOf(ctx.lanes[l].staff_id)[2].start_date = ctx.tl.end
          /\ ctx.lanes[l].bars[1] = [start |-> 1, span |-> 1]
          /\ ctx.lanes[l].bars[2] = [start |-> 14, span |-> 1]

\* C25: for a week count W >= 1 the template's own limits change nothing: the
\* column and span computed from a bucket's dict (clamped by the view) already
\* lie in 1..len(days) and 1..(len(days) - column + 1), and the bar drawn has
\* exactly that column and span.
C25_TemplateLimitsIdle ==
    (ctx.kind = "gantt" /\ ctx.weeks >= 1) =>
        \A i \in DOMAIN ctx.lanes :
            LET g == ctx.grouped[ctx.lanes[i].staff_id]
                n == Len(ctx.tl.days)
            IN  \A j \in DOMAIN g :
                    LET start0 == bar_start_raw(g[j], ctx.tl)
                        span0  == bar_span_raw(g[j])
                    IN  /\ 1 <= start0 /\ start0 <= n
                        /\ 1 <= span0 /\ span0 <= n - start0 + 1
                        /\ bar_of(g[j], ctx.tl) = [start |-> start0, span |-> span0]
                        /\ ctx.lanes[i].bars[j] = [start |-> start0, span |-> span0]

\* a row that begins before the window and ends after it, drawn over the
\* whole width
C25_Witness ==
    /\ ctx.kind = "gantt"
    /\ ctx.weeks >= 1
    /\ \E i \in DOMAIN ctx.lanes :
          \E j \in DOMAIN ctx.lanes[i].bars :
              LET src == ItemsOf(ctx.lanes[i].staff_id)[j]
              IN  /\ src.start_date < ctx.tl.start
                  /\ src.end_date > ctx.tl.end
                  /\ ctx.lanes[i].bars[j] = [start |-> 1, span |-> Len(ctx.tl.days)]

\* C30: for every requested date D and week count W >= 1 the Timeline starts
\* at most six days before D and not after it; monday_of is idempotent; and
\* build_timeline gives the same Timeline for D and for monday_of(D).
C30_WeekOfDate ==
    (req.route = "build_timeline" /\ ctx.kind # "none" /\ req.weeks >= 1) =>
        /\ ctx.kind = "timeline"
        /\ ctx.tl.start <= Requested
        /\ Requested <= ctx.tl.start + 6
        /\ monday_of(monday_of(Requested)) = monday_of(Requested)
        /\ build_timeline(Some(monday_of(Requested)), req.weeks, req.today)
               = Ok(ctx.tl)
        /\ build_timeline(Some(Requested), req.weeks, req.today)
               = build_timeline(Some(monday_of(Requested)), req.weeks, req.today)

\* a Timeline built for a Saturday given as the start parameter
C30_Witness ==
    /\ ctx.kind = "timeline"
    /\ req.weeks >= 1
    /\ req.start # None
    /\ Requested - ctx.tl.start = 5

\* the path a 'sqlite:////...' URI names
uri_path(uri) == Path(<<"/">> \o SubSeq(uri, Len(SQLITE4) + 1, Len(uri)))

\* C24: when every mkdir and touch succeeds, _prepare_sqlite_uri returns an
\* empty or non-sqlite URI unchanged, maps 'sqlite:////path' to a 'sqlite:////'
\* URI of the same absolute path, and maps 'sqlite:///rel' to a 'sqlite:////'
\* URI whose path is rel under DATA_DIR (or under the default directory).
C24_UriMapping ==
    (ctx.kind = "uri" /\ req.fs.base_mkdir /\ req.fs.parent_mkdir
        /\ req.fs.touch /\ req.fs.tmp_mkdir) =>
        LET raw  == req.raw
            r    == ctx.result
            base == Path(safe_base_of(req.data_dir,
                                      IF req.app = "gantt" THEN GNT_DATA ELSE VSM_DATA))
        IN  /\ r.ok
            /\ (raw = <<>> \/ ~startswith(raw, SQLITE)) => r.val = raw
            /\ startswith(raw, SQLITE4) =>
                  /\ startswith(r.val, SQLITE4)
                  /\ uri_path(r.val) = uri_path(raw)
            /\ (startswith(raw, SQLITE3) /\ ~startswith(raw, SQLITE4)) =>
                  /\ startswith(r.val, SQLITE4)
                  /\ uri_path(r.val)
                       = path_join(base, SubSeq(raw, Len(SQLITE3) + 1, Len(raw)))

\* C27: a response sets the 'ac' cookie only when an access code is configured
\* and this very request carried it, as the 'access' query parameter or as the
\* 'access' field of a POST to /access; after any other request the browser's
\* 'ac' cookie is what it was.
C27_AccessCookieOnlyOnCode ==
    ctx.kind = "response" =>
        LET presented ==
                /\ str_truthy(config.access_code)
                /\ \/ req.arg_access = config.access_code
                   \/ /\ req.endpoint = "access"
                      /\ req.method = "POST"
                      /\ req.form.access = config.access_code
        IN  /\ ctx.set_ac # None => (presented /\ ctx.set_ac = config.access_code)
            /\ ~presented => (ctx.set_ac = None /\ jar.ac = req.cookies.ac)

\* the form of /access posted with the right code while the query carries a
\* wrong one, by a browser that had no 'ac' cookie
C27_Witness ==
    /\ ctx.kind = "response"
    /\ req.endpoint = "access"
    /\ req.method = "POST"
    /\ req.arg_access = Some("guess")
    /\ req.cookies.ac = None
    /\ ctx.set_ac = Some("s3cret")
    /\ jar.ac = Some("s3cret")

C29_LangSelection ==
    ctx.kind = "response" =>
        LET p == req.arg_lang
            c == req.cookies.lang
            chosen == IF p # None /\ p[1] # <<>> THEN lower(p[1])
                      ELSE IF c # None /\ c[1] # <<>> THEN lower(c[1])
                      ELSE <<"z", "h">>
        IN  /\ ctx.lang \in {<<"z", "h">>, <<"j", "a">>, <<"e", "n">>}
            /\ ctx.lang = IF chosen \in {<<"z", "h">>, <<"j", "a">>, <<"e", "n">>}
                          THEN chosen ELSE <<"z", "h">>
            /\ (p # None /\ p[1] # <<>> /\ lower(p[1]) \in I18N) =>
                  /\ ctx.set_lang = p
                  /\ jar.lang = p
                  /\ ctx.lang = lower(jar.lang[1])
            /\ ((p = None \/ p[1] = <<>>) /\ c # None /\ lower(c[1]) \in I18N) =>
                  /\ ctx.lang = lower(c[1])
                  /\ jar.lang = c

\* a request without the parameter, rendered in the language an earlier
\* request's lang=JA left in the cookie
C29_Witness ==
    /\ ctx.kind = "response"
    /\ req.arg_lang = None
    /\ req.cookies.lang = Some(<<"J", "A">>)
    /\ ctx.lang = <<"j", "a">>

\* the Staff table once seeded
SeededStaff == ensure_db_seed(<<>>)

\* every response of /gantt is the rendering of the first k committed rows, for
\* some k, each row with the values stored for it
RenderOfCommitted ==
    \A t \in Threads :
        ctx[t].kind = "gantt" =>
            /\ \E k \in 0..Len(assigns) :
                  ctx[t] = gantt(SeededStaff, SubSeq(assigns, 1, k),
                                 req[t].qs_start, req[t].qs_weeks, MinDate)
            /\ \A i \in DOMAIN ctx[t].items :
                  /\ ctx[t].items[i].id \in DOMAIN assigns
                  /\ ctx[t].items[i] = assigns[ctx[t].items[i].id]

\* a step leaves every stored row as it is, and a row it adds has the values
\* of the form of the thread that commits it
RowsOnlyInserted ==
    /\ Len(assigns') >= Len(assigns)
    /\ \A i \in DOMAIN assigns : assigns'[i] = assigns[i]
    /\ Len(assigns') > Len(assigns) =>
          /\ Len(assigns') = Len(assigns) + 1
          /\ \E t \in Threads :
                LET f == req[t].form
                    r == assigns'[Len(assigns')]
                IN  /\ req[t].pc = "insert"
                    /\ r.title = f.title /\ r.staff_id = f.staff_id /\ r.memo = f.memo
                    /\ {r.start_date, r.end_date} = {f.start.v, f.end.v}
                    /\ r.start_date <= r.end_date

\* C23: under every interleaving of /assign/new and /gantt requests, each
\* /gantt response is the rendering of a set of committed Assign rows, every
\* one with the values it was inserted with, and no step changes a stored row.
C23_RendersCommittedRows == []RenderOfCommitted /\ [][RowsOnlyInserted]_vars

\* a /gantt response that shows one row while the table already holds a
\* second one, committed by the other thread after the read
C23_Witness ==
    \E t \in Threads :
        /\ ctx[t].kind = "gantt"
        /\ Len(ctx[t].items) = 1
        /\ Len(assigns) = 2
        /\ \A i \in DOMAIN assigns : assign_filter(assigns[i], ctx[t].tl)

\* C26: when both threads have read a count of 0 in ensure_db_seed, neither
\* request fails, and the Staff table holds every seed name at most once.
C26_ConcurrentSeedSafe ==
    (\A t \in Threads : req[t].cnt = Some(0)) =>
        /\ \A t \in Threads : ctx[t].kind # "error"
        /\ \A i, j \in DOMAIN staff : staff[i].name = staff[j].name => i = j

====
